---- MODULE Spec2Model ----
(***************************************************************************)
(* The scene runtime of the GalaxyCanvas component: the pointer/pick       *)
(* controller, the camera focus controller, the frame step, gsap's tween   *)
(* timeline, and the mount / cleanup of the scene.                         *)
(*                                                                         *)
(* Abstractions, all stated here:                                          *)
(*  - a site is its index in the `sites` prop; null is 0;                 *)
(*  - the camera, the orbit target and the sites lie on the z axis, so a   *)
(*    position is its z coordinate and a direction is a sign;              *)
(*  - time advances in gsap ticks; a tween of duration d takes the number  *)
(*    of ticks named for it and is interpolated linearly (the eases are    *)
(*    monotone maps with the same end points);                             *)
(*  - the drag distance is kept squared (Math.hypot is not an integer);    *)
(*  - pointerNdc is kept multiplied by the window size;                    *)
(*  - a mesh scale is kept multiplied by 100, and only as the end value   *)
(*    of the tween that writes it;                                        *)
(*  - the raycast result of a frame is an input of the frame step;         *)
(*  - the user's own orbit / zoom input to OrbitControls is left out;       *)
(*  - the clock is read in milliseconds; weights, blends, rotations, label *)
(*    scales and opacities are fixed-point numbers;                        *)
(*  - what a frame computes with Math.sin from the clock (a node's float,  *)
(*    the particles' swirl) is kept as the clock reading it was computed   *)
(*    from; a particle stands for the field, and whether it lies within    *)
(*    the disturbance radius is an input of the frame step, as are the     *)
(*    clock's delta and the camera-to-label distance;                      *)
(*  - Spec, SpecRemount and SpecLive take their frames with the clock      *)
(*    standing (delta 0, the first reading of a THREE.Clock) and the       *)
(*    labels at the base distance; SpecFrame and SpecLabel run the clock   *)
(*    and the distances.                                                   *)
(***************************************************************************)
EXTENDS Integers, Sequences, FiniteSets, TLC

\* ---------------------------------------------------------------- bounds
MaxRequests == 3
MaxMounts == 2
\* the length of one gsap tick, in hundredths of a second
TickLength == 100
\* the longest sites prop the scene graph is built for
MaxSites == 4
\* the clock reading up to which frames advance the clock, in milliseconds
MaxElapsed == 250
\* the greatest camera-to-label distance of a frame, short of the far one
MaxLabelDistance == 120

\* ------------------------------------------------------- program constants
None == 0
BASE_CAMERA_POSITION == 40
FOCUS_DISTANCE == 8
FOCUS_DURATION == 185
NullDuration == 210
HoverDuration == 25
dragThreshold == 8
minDistance == 10
maxDistance == 110
InnerWidth == 16
InnerHeight == 16
NdcSentinel == 2
ScaleRest == 100
ScaleHover == 145
CurveDivisions == 14
NeighbourCount == 2
\* disturbBlend = Math.min(1, delta * 6), in thousandths, delta in milliseconds
BlendRate == 6
BlendOne == 1000
\* the disturbance weight 1 and the negligible weight 0.001, in millionths
WeightOne == 1000000
NegligibleWeight == 1000
\* the rotation rates, in millionths of a radian per millisecond of the clock
GalaxyRate == 30
DeepRate == 0 - 16
ConstellationRate == 50
NodesRate == 30
RingRate == 200
\* label scale 3.1 - distance * 0.045 in [0.72, 2.35] and opacity
\* 1.04 - distance * 0.012 in [0.24, 0.95], in thousandths
LabelScaleBase == 3100
LabelScaleSlope == 45
LabelScaleMin == 720
LabelScaleMax == 2350
LabelOpacityBase == 1040
LabelOpacitySlope == 12
LabelOpacityMin == 240
LabelOpacityMax == 950
FarDistance == 1000000
\* vectors of the curve construction are in thousandths
Milli == 1000
SqrtMax == 46340
NormalEpsilon == 100
UpVector == <<0, 1000, 0>>
ControlLiftDivisor == 5
ControlLiftBase == 1200

\* the sites prop: the position of each site, on the z axis
sites == <<14, 0 - 20>>

Sites == 1..Len(sites)
SiteOrNull == Sites \cup {None}

\* the ticks a tween of the given duration takes
Ticks(duration) == (duration + TickLength - 1) \div TickLength

\* the client coordinates pointer events carry
ClientPoints == {<<0, 0>>, <<8, 0>>, <<8, 3>>}

\* what the raycast of one frame can return: the intersected node meshes,
\* nearest first
RECURSIVE Perms(_)
Perms(S) ==
    IF S = {} THEN {<<>>}
    ELSE UNION {{<<x>> \o p : p \in Perms(S \ {x})} : x \in S}
RaycastResults == UNION {Perms(S) : S \in SUBSET Sites}

Abs(x) == IF x < 0 THEN 0 - x ELSE x
Sign(x) == IF x < 0 THEN 0 - 1 ELSE IF x > 0 THEN 1 ELSE 0
Max(a, b) == IF a > b THEN a ELSE b
Min(a, b) == IF a < b THEN a ELSE b

VARIABLES
    pc,             \* "run": mounted; "td_release": inside the cleanup; "down": runtimeRef.current = null
    inst,           \* how many times the mount effect has run
    focusSite,      \* the focusSite prop as of the last focus effect
    focusLocked, pendingFocusId, cameraTween, targetTween, controlsEnabled,
    currentHovered, cursor,
    pointerDown, dragDistanceSq, pointerDownAt, pointerClient, pointerNdc,
    tweens,         \* gsap's global timeline: the live tweens
    cameraPos, targetPos,
    listeners, frameScheduled, disposed,
    requests,       \* history: the focus requests processed, in order
    completeLog,    \* history: the onFocusComplete calls, in order
    emitted,        \* the callbacks the last step invoked, in order
    lastOp,         \* the last step taken
    lastIntersects, \* the intersections the last step's raycast returned, nearest first
    appFocusSite,   \* App: the focusSite state
    previewSite,    \* App: the previewSite state
    sitesProp,      \* the sites prop the scene graph is built from
    nodeMeshes, nodeMeshById, sitePoints, curveSegments,
    curveControls,  \* the control point of each constellation curve, in loop order
    elapsed,        \* clock.elapsedTime, in milliseconds
    disturbWeightTarget, disturbWeight,
    galaxyPositions, galaxyFieldRotation, deepStarsRotation,
    constellationRotation, nodesGroupRotation, childPositionY, ringRotation,
    labelDistance, labelScale, labelOpacity

runtimeVars == <<focusLocked, pendingFocusId, cameraTween, targetTween, controlsEnabled>>
hoverVars == <<currentHovered, cursor>>
pointerVars == <<pointerDown, dragDistanceSq, pointerDownAt, pointerClient, pointerNdc>>
objectVars == <<cameraPos, targetPos>>
mountVars == <<pc, inst, listeners, frameScheduled, disposed>>
historyVars == <<requests, completeLog>>
graphVars == <<sitesProp, nodeMeshes, nodeMeshById, sitePoints, curveSegments,
               curveControls>>
disturbVars == <<disturbWeightTarget, disturbWeight>>
frameVars == <<elapsed, galaxyPositions, galaxyFieldRotation, deepStarsRotation,
               constellationRotation, nodesGroupRotation, childPositionY, ringRotation,
               labelDistance, labelScale, labelOpacity>>
sceneVars == <<graphVars, disturbVars, frameVars>>
appVars == <<appFocusSite, previewSite>>
vars == <<runtimeVars, hoverVars, pointerVars, objectVars, mountVars, historyVars,
          focusSite, tweens, emitted, lastOp, lastIntersects, sceneVars, appVars>>

\* focusSite.position: the position on the z axis of the n-th site of the prop
SitePosition(n) == sitesProp[n].position[3]

\* ------------------------------------------------------------- callbacks
HoverChange(site, x, y) == [cb |-> "onHoverChange", site |-> site, x |-> x, y |-> y]
NodeSelect(site) == [cb |-> "onNodeSelect", site |-> site, x |-> 0, y |-> 0]
FocusComplete(site) == [cb |-> "onFocusComplete", site |-> site, x |-> 0, y |-> 0]

\* ---------------------------------------------------------------- tweens
\* gsap.to(target, {..., duration}): a tween of the timeline. `obj` is the
\* mount whose object it writes, `node` the mesh of a scale tween, `req` the
\* focus request that made a camera / target tween (its handle), `site` the
\* focusSite its onComplete closes over (None: no onComplete).
Tween(field, obj, node, req, dest, total, site) ==
    [field |-> field, obj |-> obj, node |-> node, req |-> req, dest |-> dest,
     captured |-> FALSE, from |-> 0, left |-> total, total |-> total, site |-> site]

\* tween.kill() on a stored handle (null, finished and killed handles are no-ops)
Kill(tw, field, handle) ==
    {t \in tw : ~(t.field = field /\ t.req = handle /\ handle # None)}

\* overwrite: true -- gsap kills every other tween of the same target
Overwrite(tw, obj, node) ==
    {t \in tw : ~(t.field = "scale" /\ t.obj = obj /\ t.node = node)}

ScaleTo(tw, obj, node, dest) ==
    Overwrite(tw, obj, node) \cup {Tween("scale", obj, node, None, dest, Ticks(HoverDuration), None)}

\* mutant: setHovered without its early return
SetHoveredNoGuard(cur, cur_cursor, tw, nextHovered, client, obj) ==
    LET tw1 == IF cur # None THEN ScaleTo(tw, obj, cur, ScaleRest) ELSE tw
    IN  IF nextHovered # None
        THEN [hovered |-> nextHovered, cursor |-> "pointer",
              tweens |-> ScaleTo(tw1, obj, nextHovered, ScaleHover),
              emits |-> <<HoverChange(nextHovered, client[1], client[2])>>]
        ELSE [hovered |-> None, cursor |-> "default", tweens |-> tw1,
              emits |-> <<HoverChange(None, 0, 0)>>]

\* mutant: a gained hover is reported at the origin of the screen
SetHoveredNoCoordinates(cur, cur_cursor, tw, nextHovered, client, obj) ==
    IF cur = nextHovered
    THEN [hovered |-> cur, cursor |-> cur_cursor, tweens |-> tw, emits |-> <<>>]
    ELSE LET tw1 == IF cur # None THEN ScaleTo(tw, obj, cur, ScaleRest) ELSE tw
         IN  IF nextHovered # None
             THEN [hovered |-> nextHovered, cursor |-> "pointer",
                   tweens |-> ScaleTo(tw1, obj, nextHovered, ScaleHover),
                   emits |-> <<HoverChange(nextHovered, 0, 0)>>]
             ELSE [hovered |-> None, cursor |-> "default", tweens |-> tw1,
                   emits |-> <<HoverChange(None, 0, 0)>>]

\* ------------------------------------------------------------ setHovered
\* The result of setHovered(nextHovered) on hover state `cur`, timeline `tw`.
SetHovered(cur, cur_cursor, tw, nextHovered, client, obj) ==
    IF cur = nextHovered
    THEN [hovered |-> cur, cursor |-> cur_cursor, tweens |-> tw, emits |-> <<>>]
    ELSE LET tw1 == IF cur # None THEN ScaleTo(tw, obj, cur, ScaleRest) ELSE tw
         IN  IF nextHovered # None
             THEN [hovered |-> nextHovered, cursor |-> "pointer",
                   tweens |-> ScaleTo(tw1, obj, nextHovered, ScaleHover),
                   emits |-> <<HoverChange(nextHovered, client[1], client[2])>>]
             ELSE [hovered |-> None, cursor |-> "default", tweens |-> tw1,
                   emits |-> <<HoverChange(None, 0, 0)>>]

\* ------------------------------------------------------- pointer handlers
DistSq(a, b) == (a[1] - b[1]) * (a[1] - b[1]) + (a[2] - b[2]) * (a[2] - b[2])

\* pointerNdc of a client point, times the window size
Ndc(p) == <<2 * p[1] - InnerWidth, InnerHeight - 2 * p[2]>>
NdcOffCanvas == <<NdcSentinel * InnerWidth, NdcSentinel * InnerHeight>>

\* mutant: the drag distance is the distance of the last move
OnPointerMoveLastDistance(p) ==
    /\ pc = "run"
    /\ "pointermove" \in listeners
    /\ pointerNdc' = Ndc(p)
    /\ pointerClient' = p
    /\ disturbWeightTarget' = WeightOne
    /\ dragDistanceSq' = IF pointerDown
                         THEN DistSq(p, pointerDownAt)
                         ELSE dragDistanceSq
    /\ emitted' = IF currentHovered # None
                  THEN <<HoverChange(currentHovered, p[1], p[2])>>
                  ELSE <<>>
    /\ UNCHANGED appVars
    /\ lastIntersects' = <<>>
    /\ lastOp' = "onPointerMove"
    /\ UNCHANGED <<pointerDown, pointerDownAt, runtimeVars, hoverVars, objectVars,
                   mountVars, historyVars, focusSite, tweens,
                   disturbWeight, frameVars, graphVars>>

OnPointerMove(p) ==
    /\ pc = "run"
    /\ "pointermove" \in listeners
    /\ pointerNdc' = Ndc(p)
    /\ pointerClient' = p
    /\ disturbWeightTarget' = WeightOne
    /\ dragDistanceSq' = IF pointerDown
                         THEN Max(dragDistanceSq, DistSq(p, pointerDownAt))
                         ELSE dragDistanceSq
    /\ emitted' = IF currentHovered # None
                  THEN <<HoverChange(currentHovered, p[1], p[2])>>
                  ELSE <<>>
    /\ UNCHANGED appVars
    /\ lastIntersects' = <<>>
    /\ lastOp' = "onPointerMove"
    /\ UNCHANGED <<pointerDown, pointerDownAt, runtimeVars, hoverVars, objectVars,
                   mountVars, historyVars, focusSite, tweens,
                   disturbWeight, frameVars, graphVars>>

OnPointerDown(p) ==
    /\ pc = "run"
    /\ "pointerdown" \in listeners
    /\ pointerDown' = TRUE
    /\ pointerDownAt' = p
    /\ dragDistanceSq' = 0
    /\ emitted' = <<>>
    /\ UNCHANGED appVars
    /\ lastIntersects' = <<>>
    /\ lastOp' = "onPointerDown"
    /\ UNCHANGED <<pointerClient, pointerNdc, runtimeVars, hoverVars, objectVars,
                   mountVars, historyVars, focusSite, tweens,
                   sceneVars>>

OnPointerUp ==
    /\ pc = "run"
    /\ "pointerup" \in listeners
    /\ pointerDown' = FALSE
    /\ emitted' = <<>>
    /\ UNCHANGED appVars
    /\ lastIntersects' = <<>>
    /\ lastOp' = "onPointerUp"
    /\ UNCHANGED <<dragDistanceSq, pointerDownAt, pointerClient, pointerNdc, runtimeVars,
                   hoverVars, objectVars, mountVars, historyVars, focusSite, tweens,
                   sceneVars>>

OnPointerLeave ==
    /\ pc = "run"
    /\ "pointerleave" \in listeners
    /\ pointerDown' = FALSE
    /\ disturbWeightTarget' = 0
    /\ pointerNdc' = NdcOffCanvas
    /\ emitted' = <<>>
    /\ UNCHANGED appVars
    /\ lastIntersects' = <<>>
    /\ lastOp' = "onPointerLeave"
    /\ UNCHANGED <<dragDistanceSq, pointerDownAt, pointerClient, runtimeVars,
                   hoverVars, objectVars, mountVars, historyVars, focusSite, tweens,
                   disturbWeight, frameVars, graphVars>>

\* mutant: onClick without the drag test
ClickResultNoDrag(drag, locked, hovered) ==
    IF locked \/ hovered = None
    THEN [drag |-> drag, emits |-> <<>>]
    ELSE [drag |-> 0, emits |-> <<NodeSelect(hovered)>>]

\* mutant: the drag test refuses a drag distance equal to the threshold
ClickResultStrict(drag, locked, hovered) ==
    IF drag >= dragThreshold * dragThreshold
    THEN [drag |-> 0, emits |-> <<>>]
    ELSE IF locked \/ hovered = None
         THEN [drag |-> drag, emits |-> <<>>]
         ELSE [drag |-> 0, emits |-> <<NodeSelect(hovered)>>]

\* what onClick calls and the drag distance it leaves
ClickResult(drag, locked, hovered) ==
    IF drag > dragThreshold * dragThreshold
    THEN [drag |-> 0, emits |-> <<>>]
    ELSE IF locked \/ hovered = None
         THEN [drag |-> drag, emits |-> <<>>]
         ELSE [drag |-> 0, emits |-> <<NodeSelect(hovered)>>]

OnClick ==
    /\ pc = "run"
    /\ "click" \in listeners
    /\ LET r == ClickResult(dragDistanceSq, focusLocked, currentHovered)
       IN  /\ dragDistanceSq' = r.drag
           /\ emitted' = r.emits
    /\ UNCHANGED appVars
    /\ lastIntersects' = <<>>
    /\ lastOp' = "onClick"
    /\ UNCHANGED <<pointerDown, pointerDownAt, pointerClient, pointerNdc, runtimeVars,
                   hoverVars, objectVars, mountVars, historyVars, focusSite, tweens,
                   sceneVars>>

OnControlStart ==
    /\ pc = "run"
    /\ "start" \in listeners
    /\ LET r == SetHovered(currentHovered, cursor, tweens, None, pointerClient, inst)
       IN  /\ currentHovered' = r.hovered
           /\ cursor' = r.cursor
           /\ tweens' = r.tweens
           /\ emitted' = r.emits
    /\ UNCHANGED appVars
    /\ lastIntersects' = <<>>
    /\ lastOp' = "onControlStart"
    /\ UNCHANGED <<pointerVars, runtimeVars, objectVars, mountVars, historyVars, focusSite,
                   sceneVars>>

\* ------------------------------------------------------- OrbitControls
\* controls.update(): the camera is kept on its side of the orbit target at a
\* distance within [minDistance, maxDistance]
ControlsUpdate(cam, tgt) ==
    LET d == cam - tgt
        r == Max(minDistance, Min(maxDistance, Abs(d)))
    IN  tgt + (IF d < 0 THEN 0 - r ELSE r)

\* ---------------------------------------------------------- focus effect
\* the runtime fields the focus effect reads and writes
Runtime ==
    [focusLocked |-> focusLocked, pendingFocusId |-> pendingFocusId,
     cameraTween |-> cameraTween, targetTween |-> targetTween,
     controlsEnabled |-> controlsEnabled, hovered |-> currentHovered,
     cursor |-> cursor, tweens |-> tweens, emits |-> <<>>]

\* mutant: the stored tweens are not killed
KillNothing(tw, camHandle, tgtHandle) == tw

\* runtime.cameraTween?.kill(); runtime.targetTween?.kill()
KillFocusTweens(tw, camHandle, tgtHandle) ==
    Kill(Kill(tw, "camera", camHandle), "target", tgtHandle)

\* the camera destination of a focus on a node at focusTarget
Destination(cam, focusTarget) ==
    LET approachDirection == IF cam - focusTarget = 0 THEN 1 ELSE Sign(cam - focusTarget)
    IN  focusTarget + approachDirection * FOCUS_DISTANCE

\* mutant: onComplete is given to the camera tween as well
FocusBranchBothComplete(rt, tw, s, req, obj, cam, client) ==
    LET h == SetHovered(rt.hovered, rt.cursor, tw, None, client, obj)
        focusTarget == SitePosition(s)
    IN  [focusLocked |-> TRUE, pendingFocusId |-> s,
         cameraTween |-> req, targetTween |-> req,
         controlsEnabled |-> FALSE, hovered |-> h.hovered, cursor |-> h.cursor,
         tweens |-> h.tweens \cup
            {Tween("camera", obj, None, req, Destination(cam, focusTarget), Ticks(FOCUS_DURATION), s),
             Tween("target", obj, None, req, focusTarget, Ticks(FOCUS_DURATION), s)},
         emits |-> h.emits]

\* mutant: pendingFocusId is not updated
FocusBranchNoPending(rt, tw, s, req, obj, cam, client) ==
    LET h == SetHovered(rt.hovered, rt.cursor, tw, None, client, obj)
        focusTarget == SitePosition(s)
    IN  [focusLocked |-> TRUE, pendingFocusId |-> rt.pendingFocusId,
         cameraTween |-> req, targetTween |-> req,
         controlsEnabled |-> FALSE, hovered |-> h.hovered, cursor |-> h.cursor,
         tweens |-> h.tweens \cup
            {Tween("camera", obj, None, req, Destination(cam, focusTarget), Ticks(FOCUS_DURATION), None),
             Tween("target", obj, None, req, focusTarget, Ticks(FOCUS_DURATION), s)},
         emits |-> h.emits]

\* the focusSite branch: lock, clear hover, fly to the node
FocusBranch(rt, tw, s, req, obj, cam, client) ==
    LET h == SetHovered(rt.hovered, rt.cursor, tw, None, client, obj)
        focusTarget == SitePosition(s)
    IN  [focusLocked |-> TRUE, pendingFocusId |-> s,
         cameraTween |-> req, targetTween |-> req,
         controlsEnabled |-> FALSE, hovered |-> h.hovered, cursor |-> h.cursor,
         tweens |-> h.tweens \cup
            {Tween("camera", obj, None, req, Destination(cam, focusTarget), Ticks(FOCUS_DURATION), None),
             Tween("target", obj, None, req, focusTarget, Ticks(FOCUS_DURATION), s)},
         emits |-> h.emits]

\* mutant: only the orbit target is sent back
NullBranchNoCamera(rt, tw, req, obj, client) ==
    LET h == SetHovered(rt.hovered, rt.cursor, tw, None, client, obj)
    IN  [focusLocked |-> FALSE, pendingFocusId |-> None,
         cameraTween |-> rt.cameraTween, targetTween |-> req,
         controlsEnabled |-> TRUE, hovered |-> h.hovered, cursor |-> h.cursor,
         tweens |-> h.tweens \cup {Tween("target", obj, None, req, 0, Ticks(NullDuration), None)},
         emits |-> h.emits \o <<HoverChange(None, 0, 0)>>]

\* mutant: the lock is left as it was
NullBranchKeepsLock(rt, tw, req, obj, client) ==
    LET h == SetHovered(rt.hovered, rt.cursor, tw, None, client, obj)
    IN  [focusLocked |-> rt.focusLocked, pendingFocusId |-> None,
         cameraTween |-> req, targetTween |-> req,
         controlsEnabled |-> TRUE, hovered |-> h.hovered, cursor |-> h.cursor,
         tweens |-> h.tweens \cup
            {Tween("camera", obj, None, req, BASE_CAMERA_POSITION, Ticks(NullDuration), None),
             Tween("target", obj, None, req, 0, Ticks(NullDuration), None)},
         emits |-> h.emits \o <<HoverChange(None, 0, 0)>>]

\* the null branch: unlock, clear hover, fly back to the base pose
NullBranch(rt, tw, req, obj, client) ==
    LET h == SetHovered(rt.hovered, rt.cursor, tw, None, client, obj)
    IN  [focusLocked |-> FALSE, pendingFocusId |-> None,
         cameraTween |-> req, targetTween |-> req,
         controlsEnabled |-> TRUE, hovered |-> h.hovered, cursor |-> h.cursor,
         tweens |-> h.tweens \cup
            {Tween("camera", obj, None, req, BASE_CAMERA_POSITION, Ticks(NullDuration), None),
             Tween("target", obj, None, req, 0, Ticks(NullDuration), None)},
         emits |-> h.emits \o <<HoverChange(None, 0, 0)>>]

\* the focus effect on a mounted runtime `rt`, for focusSite `s`, as request `req`
FocusEffectBody(rt, s, req, obj, cam, client) ==
    LET tw == KillFocusTweens(rt.tweens, rt.cameraTween, rt.targetTween)
    IN  IF s # None
        THEN FocusBranch(rt, tw, s, req, obj, cam, client)
        ELSE NullBranch(rt, tw, req, obj, client)

FocusEffect(s) ==
    /\ pc = "run"
    /\ s # focusSite
    /\ Len(requests) < MaxRequests
    /\ LET r == FocusEffectBody(Runtime, s, Len(requests) + 1, inst, cameraPos, pointerClient)
       IN  /\ focusLocked' = r.focusLocked
           /\ pendingFocusId' = r.pendingFocusId
           /\ cameraTween' = r.cameraTween
           /\ targetTween' = r.targetTween
           /\ controlsEnabled' = r.controlsEnabled
           /\ currentHovered' = r.hovered
           /\ cursor' = r.cursor
           /\ tweens' = r.tweens
           /\ emitted' = r.emits
    /\ focusSite' = s
    /\ requests' = Append(requests, [site |-> s, inst |-> inst])
    /\ UNCHANGED appVars
    /\ lastIntersects' = <<>>
    /\ lastOp' = "focusEffect"
    /\ UNCHANGED <<completeLog, pointerVars, objectVars, mountVars,
                   sceneVars>>

\* ------------------------------------------------------------ gsap tick
\* the value of the object field a tween writes
FieldValue(t) ==
    IF t.obj = inst /\ t.field = "camera" THEN cameraPos
    ELSE IF t.obj = inst /\ t.field = "target" THEN targetPos
    ELSE t.dest

\* a tween records its start value at its first render, then advances one tick
Advance(t) ==
    [t EXCEPT !.captured = TRUE,
              !.from = IF t.captured THEN t.from ELSE FieldValue(t),
              !.left = t.left - 1]

\* the value a tween writes at its position; its end value exactly at the end
TweenValue(t) ==
    IF t.left = 0 THEN t.dest
    ELSE t.from + ((t.dest - t.from) * (t.total - t.left)) \div t.total

RECURSIVE SeqByReq(_)
SeqByReq(S) ==
    IF S = {} THEN <<>>
    ELSE LET m == CHOOSE t \in S : \A u \in S : t.req <= u.req
         IN  <<m>> \o SeqByReq(S \ {m})

\* the value left in a field by the tweens `live` (rendered in creation order)
Written(live, old) ==
    IF live = {} THEN old
    ELSE TweenValue(CHOOSE t \in live : \A u \in live : u.req <= t.req)

\* the finished tweens whose onComplete calls onFocusComplete:
\* runtimeRef.current?.pendingFocusId === focusSite.id
Completing(done) ==
    {t \in done : /\ t.site # None
                  /\ pc = "run"
                  /\ pendingFocusId = t.site}

GsapTick ==
    /\ pc \in {"run", "down"}
    /\ tweens # {}
    /\ LET adv == {Advance(t) : t \in tweens}
           mine == {t \in adv : t.obj = inst}
           done == {t \in adv : t.left = 0}
           cam == Written({t \in mine : t.field = "camera"}, cameraPos)
           tgt == Written({t \in mine : t.field = "target"}, targetPos)
           calls == SeqByReq(Completing(done))
       IN  /\ tweens' = adv \ done
           /\ targetPos' = tgt
           \* onUpdate of a target tween: runtime.controls.update()
           /\ cameraPos' = IF \E t \in mine : t.field = "target"
                           THEN ControlsUpdate(cam, tgt)
                           ELSE cam
           /\ emitted' = [i \in 1..Len(calls) |-> FocusComplete(calls[i].site)]
           /\ completeLog' = completeLog \o
                  [i \in 1..Len(calls) |->
                      [site |-> calls[i].site, req |-> calls[i].req, at |-> Len(requests)]]
    /\ UNCHANGED appVars
    /\ lastIntersects' = <<>>
    /\ lastOp' = "gsapTick"
    /\ UNCHANGED <<requests, pointerVars, runtimeVars, hoverVars, mountVars, focusSite,
                   sceneVars>>

\* ----------------------------------------------------------- frame step
\* what a frame reads from outside the model: clock.getDelta(), the
\* camera-to-label distance, whether the particle is within DISTURB_RADIUS
FrameDeltas == {0, 50, 200}
\* where the pointer of SpecFrame moves
FramePoints == {<<8, 0>>}
StillFrames == {[delta |-> 0, distance |-> BASE_CAMERA_POSITION, near |-> FALSE]}
Frames == [delta : FrameDeltas, distance : {FOCUS_DISTANCE, BASE_CAMERA_POSITION}, near : BOOLEAN]
LabelFrames ==
    [delta : {0}, distance : (0..MaxLabelDistance) \cup {FarDistance}, near : {FALSE}]

\* Math.min(1, delta * 6)
DisturbBlend(delta) == Min(BlendOne, delta * BlendRate)

\* mutant: the weight is pushed away from its target
DisturbWeightStepAway(weight, target, blend) ==
    weight + ((weight - target) * blend) \div BlendOne

\* disturbWeight += (disturbWeightTarget - disturbWeight) * disturbBlend
DisturbWeightStep(weight, target, blend) ==
    weight + ((target - weight) * blend) \div BlendOne

\* mutant: the disturbance is applied whatever the weight
IsDisturbedAlways(weight, near) == near

\* if (disturbWeight > 0.001) { if (distSq < radiusSq) { ... } }
IsDisturbed(weight, near) == weight > NegligibleWeight /\ near

\* mutant: the idle motion runs in every frame
IdleMotionAlways(isFocused, e, old) ==
    [constellationRotation |-> e * ConstellationRate,
     nodesGroupRotation |-> e * NodesRate,
     childPositionY |-> e,
     ringRotation |-> e * RingRate]

\* if (!isFocused) { constellation.rotation.y = ...; nodesGroup.rotation.y = ...;
\* child.position.y = ...; ring.rotation.z = ... }
IdleMotion(isFocused, e, old) ==
    IF ~isFocused
    THEN [constellationRotation |-> e * ConstellationRate,
          nodesGroupRotation |-> e * NodesRate,
          childPositionY |-> e,
          ringRotation |-> e * RingRate]
    ELSE old

\* THREE.MathUtils.clamp
Clamp(value, min, max) == Max(min, Min(max, value))

\* mutant: the label scale is not clamped
LabelScaleUnclamped(distance) == LabelScaleBase - distance * LabelScaleSlope

LabelScale(distance) ==
    Clamp(LabelScaleBase - distance * LabelScaleSlope, LabelScaleMin, LabelScaleMax)
LabelOpacity(distance) ==
    Clamp(LabelOpacityBase - distance * LabelOpacitySlope, LabelOpacityMin, LabelOpacityMax)

\* the idle motion as the scene holds it
Idle ==
    [constellationRotation |-> constellationRotation,
     nodesGroupRotation |-> nodesGroupRotation,
     childPositionY |-> childPositionY,
     ringRotation |-> ringRotation]

\* the part of a frame that runs on the clock: the disturbance, the
\* particles, the rotations, the floats and the labels
FrameMotion(isFocused, f) ==
    LET e == elapsed + f.delta
        target == IF isFocused THEN 0 ELSE disturbWeightTarget
        weight == DisturbWeightStep(disturbWeight, target, DisturbBlend(f.delta))
        idle == IdleMotion(isFocused, e, Idle)
    IN  /\ elapsed' = e
        /\ disturbWeightTarget' = target
        /\ disturbWeight' = weight
        /\ galaxyPositions' = [elapsed |-> e, disturbed |-> IsDisturbed(weight, f.near)]
        /\ galaxyFieldRotation' = e * GalaxyRate
        /\ deepStarsRotation' = e * DeepRate
        /\ constellationRotation' = idle.constellationRotation
        /\ nodesGroupRotation' = idle.nodesGroupRotation
        /\ childPositionY' = idle.childPositionY
        /\ ringRotation' = idle.ringRotation
        /\ labelDistance' = f.distance
        /\ labelScale' = LabelScale(f.distance)
        /\ labelOpacity' = LabelOpacity(f.distance)

\* raycaster.intersectObjects(nodeMeshes): from the base pose the ray through
\* the off-canvas sentinel passes above every node
Raycast(ndc, cam, tgt) ==
    IF ndc = NdcOffCanvas /\ cam = BASE_CAMERA_POSITION /\ tgt = 0
    THEN {<<>>}
    ELSE RaycastResults

\* mutant: hit testing in every frame
FrameHoverAlways(isFocused, cur, cur_cursor, tw, intersects, client, obj) ==
    SetHovered(cur, cur_cursor, tw,
               IF Len(intersects) > 0 THEN intersects[1] ELSE None, client, obj)

\* mutant: the farthest intersection is taken
FrameHoverFarthest(isFocused, cur, cur_cursor, tw, intersects, client, obj) ==
    IF ~isFocused
    THEN SetHovered(cur, cur_cursor, tw,
                    IF Len(intersects) > 0 THEN intersects[Len(intersects)] ELSE None,
                    client, obj)
    ELSE IF cur # None
         THEN SetHovered(cur, cur_cursor, tw, None, client, obj)
         ELSE [hovered |-> cur, cursor |-> cur_cursor, tweens |-> tw, emits |-> <<>>]

\* the hover part of a frame: hit testing when not focused, the defensive
\* clear when focused
FrameHover(isFocused, cur, cur_cursor, tw, intersects, client, obj) ==
    IF ~isFocused
    THEN SetHovered(cur, cur_cursor, tw,
                    IF Len(intersects) > 0 THEN intersects[1] ELSE None, client, obj)
    ELSE IF cur # None
         THEN SetHovered(cur, cur_cursor, tw, None, client, obj)
         ELSE [hovered |-> cur, cursor |-> cur_cursor, tweens |-> tw, emits |-> <<>>]

\* the frame runs whenever its request is pending: only cancelAnimationFrame
\* in the cleanup stops the loop (the frame reads runtimeRef.current?.)
Animate(intersects, f) ==
    /\ frameScheduled
    /\ elapsed + f.delta <= MaxElapsed
    /\ intersects \in Raycast(pointerNdc, cameraPos, targetPos)
    /\ frameScheduled' = TRUE
    /\ FrameMotion(focusLocked, f)
    /\ LET r == FrameHover(focusLocked, currentHovered, cursor, tweens, intersects,
                           pointerClient, inst)
       IN  /\ currentHovered' = r.hovered
           /\ cursor' = r.cursor
           /\ tweens' = r.tweens
           /\ emitted' = r.emits
    /\ cameraPos' = ControlsUpdate(cameraPos, targetPos)
    /\ UNCHANGED appVars
    /\ lastIntersects' = IF focusLocked THEN <<>> ELSE intersects
    /\ lastOp' = "animate"
    /\ UNCHANGED <<targetPos, pc, inst, listeners, disposed, pointerVars,
                   runtimeVars, historyVars, focusSite,
                   graphVars>>

OnResize ==
    /\ pc = "run"
    /\ "resize" \in listeners
    /\ emitted' = <<>>
    /\ UNCHANGED appVars
    /\ lastIntersects' = <<>>
    /\ lastOp' = "onResize"
    /\ UNCHANGED <<pointerVars, runtimeVars, hoverVars, objectVars, mountVars,
                   historyVars, focusSite, tweens,
                   sceneVars>>

\* ------------------------------------------------------------ scene graph
\* the sites prop of the running scene: the sites on the z axis
SitesProp == [n \in Sites |-> [id |-> n, position |-> <<0, 0, sites[n]>>]]

\* the sites props the construction is checked for: every list of up to
\* MaxSites sites with distinct ids, positions repeated or equidistant
Points == {<<0, 0, 0>>, <<2, 0, 0>>, <<0, 2, 0>>}
SiteIds == 1..MaxSites
IdLists(n) == UNION {Perms(S) : S \in {T \in SUBSET SiteIds : Cardinality(T) = n}}
SiteLists ==
    UNION {{[i \in 1..n |-> [id |-> ids[i], position |-> ps[i]]] :
               ids \in IdLists(n), ps \in [1..n -> Points]} : n \in 0..MaxSites}

\* Map.prototype.set: a new key is appended, a present key keeps its place
MapHas(m, key) == \E i \in 1..Len(m) : m[i].key = key
MapSet(m, key, value) ==
    IF MapHas(m, key)
    THEN [i \in 1..Len(m) |-> IF m[i].key = key THEN [key |-> key, value |-> value] ELSE m[i]]
    ELSE Append(m, [key |-> key, value |-> value])
MapGet(m, key) == (CHOOSE e \in {m[i] : i \in 1..Len(m)} : e.key = key).value

\* mutant: the lookup is keyed by the position in the list
NodeLoopStepByIndex(g, site) ==
    LET sphere == [mesh |-> Len(g.nodeMeshes) + 1, site |-> site]
    IN  [nodeMeshes |-> Append(g.nodeMeshes, sphere),
         nodeMeshById |-> MapSet(g.nodeMeshById, sphere.mesh, sphere),
         sitePoints |-> Append(g.sitePoints, site.position)]

\* one pass of `for (const site of sites)`: the sphere of the site, pushed to
\* nodeMeshes, set in nodeMeshById, its position pushed to sitePoints
NodeLoopStep(g, site) ==
    LET sphere == [mesh |-> Len(g.nodeMeshes) + 1, site |-> site]
    IN  [nodeMeshes |-> Append(g.nodeMeshes, sphere),
         nodeMeshById |-> MapSet(g.nodeMeshById, site.id, sphere),
         sitePoints |-> Append(g.sitePoints, site.position)]

RECURSIVE NodeLoop(_, _)
NodeLoop(g, list) ==
    IF list = <<>> THEN g ELSE NodeLoop(NodeLoopStep(g, Head(list)), Tail(list))

\* Vector3.distanceToSquared
DistanceToSquared(a, b) ==
    (a[1] - b[1]) * (a[1] - b[1]) + (a[2] - b[2]) * (a[2] - b[2])
        + (a[3] - b[3]) * (a[3] - b[3])

\* mutant: a point is a candidate for itself
IsCandidateOrSelf(pointIndex, index) == pointIndex >= index

\* .filter(({ pointIndex }) => pointIndex > index)
IsCandidate(pointIndex, index) == pointIndex > index

\* the candidates of sitePoints[index], in index order, with their distances
Candidates(points, index) ==
    LET all == [k \in 1..Len(points) |->
                   [pointIndex |-> k, distance |-> DistanceToSquared(points[index], points[k])]]
    IN  SelectSeq(all, LAMBDA c : IsCandidate(c.pointIndex, index))

\* mutant: a candidate goes before the candidates at its own distance
InsertSortedUnstable(sorted, c) ==
    LET k == Cardinality({i \in 1..Len(sorted) : sorted[i].distance < c.distance})
    IN  SubSeq(sorted, 1, k) \o <<c>> \o SubSeq(sorted, k + 1, Len(sorted))

\* .sort((a, b) => a.distance - b.distance) is stable: a candidate goes after
\* the candidates that are no farther than it is
InsertSorted(sorted, c) ==
    LET k == Cardinality({i \in 1..Len(sorted) : sorted[i].distance <= c.distance})
    IN  SubSeq(sorted, 1, k) \o <<c>> \o SubSeq(sorted, k + 1, Len(sorted))

RECURSIVE SortByDistance(_)
SortByDistance(seq) ==
    IF seq = <<>> THEN <<>>
    ELSE InsertSorted(SortByDistance(SubSeq(seq, 1, Len(seq) - 1)), seq[Len(seq)])

\* .slice(0, n)
Slice(seq, n) == SubSeq(seq, 1, Min(n, Len(seq)))

\* curve.getPoints(divisions): the points at the parameters d / divisions
GetPoints(from, to, divisions) ==
    [d \in 1..(divisions + 1) |-> [from |-> from, to |-> to, t |-> d - 1]]

\* the pushes of the segment loop: sampled[k], sampled[k + 1] for each k
SegmentPairs(sampled) ==
    [k \in 1..(2 * (Len(sampled) - 1)) |->
        sampled[(k + 1) \div 2 + (IF k % 2 = 0 THEN 1 ELSE 0)]]

\* for (const candidate of candidates)
RECURSIVE CandidateLoop(_, _, _)
CandidateLoop(segments, index, candidates) ==
    IF candidates = <<>> THEN segments
    ELSE CandidateLoop(
             segments \o SegmentPairs(GetPoints(index, Head(candidates).pointIndex, CurveDivisions)),
             index, Tail(candidates))

\* for (let index = 0; index < sitePoints.length; index += 1)
RECURSIVE ConstellationLoop(_, _, _)
ConstellationLoop(segments, points, index) ==
    IF index > Len(points) THEN segments
    ELSE ConstellationLoop(
             CandidateLoop(segments, index,
                           Slice(SortByDistance(Candidates(points, index)), NeighbourCount)),
             points, index + 1)

\* Math.sqrt, rounded down
RECURSIVE SqrtSearch(_, _, _)
SqrtSearch(x, lo, hi) ==
    IF lo = hi THEN lo
    ELSE LET mid == (lo + hi + 1) \div 2
         IN  IF mid * mid <= x THEN SqrtSearch(x, mid, hi) ELSE SqrtSearch(x, lo, mid - 1)
Sqrt(x) == SqrtSearch(x, 0, SqrtMax)

\* Vector3.lengthSq
LengthSq(v) == v[1] * v[1] + v[2] * v[2] + v[3] * v[3]

\* Vector3.normalize: divideScalar(length() || 1). The vector comes in
\* thousandths and the unit vector is returned in thousandths.
Normalize(v) ==
    LET length == Sqrt(LengthSq(v))
        divisor == IF length = 0 THEN 1 ELSE length
    IN  [i \in 1..3 |-> (v[i] * Milli) \div divisor]

\* mutant: the normal is used as it was normalised
CurveNormalNoFallback(normalized) == normalized

\* if (curveNormal.lengthSq() < 0.0001) { curveNormal.set(0, 1, 0) }
CurveNormal(normalized) ==
    IF LengthSq(normalized) < NormalEpsilon THEN UpVector ELSE normalized

\* the control point of the curve between two site points, in thousandths,
\* with the vector that normalize() was called on
ControlPoint(from, to, distanceSq) ==
    LET distance == Sqrt(distanceSq * Milli * Milli)
        midpoint == [i \in 1..3 |-> (from[i] + to[i]) * (Milli \div 2)]
        curveNormal == CurveNormal(Normalize(midpoint))
        lift == distance \div ControlLiftDivisor + ControlLiftBase
    IN  [midpoint |-> midpoint,
         normalized |-> midpoint,
         curveNormal |-> curveNormal,
         lift |-> lift,
         control |-> [i \in 1..3 |-> midpoint[i] + (curveNormal[i] * lift) \div Milli]]

\* the control points of the curves from sitePoints[index], in loop order
ControlsOf(points, index, candidates) ==
    [k \in 1..Len(candidates) |->
        ControlPoint(points[index], points[candidates[k].pointIndex], candidates[k].distance)]

RECURSIVE ControlLoop(_, _, _)
ControlLoop(controls, points, index) ==
    IF index > Len(points) THEN controls
    ELSE ControlLoop(
             controls \o ControlsOf(points, index,
                                    Slice(SortByDistance(Candidates(points, index)),
                                          NeighbourCount)),
             points, index + 1)

\* the node visuals and the constellation the mount effect builds for a sites prop
BuildSceneGraph(list) ==
    LET g == NodeLoop([nodeMeshes |-> <<>>, nodeMeshById |-> <<>>, sitePoints |-> <<>>], list)
    IN  [nodeMeshes |-> g.nodeMeshes, nodeMeshById |-> g.nodeMeshById,
         sitePoints |-> g.sitePoints,
         curveSegments |-> ConstellationLoop(<<>>, g.sitePoints, 1),
         curveControls |-> ControlLoop(<<>>, g.sitePoints, 1)]

\* ------------------------------------------------------ mount and cleanup
Res(kind, site) == [kind |-> kind, site |-> site]

\* every geometry, material and texture the mount effect constructs
ConstructedResources ==
    {Res(k, None) : k \in {"starSprite", "galaxyGeometry", "galaxyMaterial",
                           "deepGeometry", "deepMaterial", "sphereGeometry",
                           "ringGeometry", "lineGeometry", "lineMaterial"}}
    \cup {Res(k, n) : k \in {"sphereMaterial", "ringMaterial", "labelTexture",
                             "labelMaterial"}, n \in Sites}

\* the pushes of the node loop, for the first n sites
RECURSIVE SitePushes(_)
SitePushes(n) ==
    IF n = 0 THEN <<>>
    ELSE SitePushes(n - 1) \o
         <<Res("sphereMaterial", n), Res("ringMaterial", n),
           Res("labelTexture", n), Res("labelMaterial", n)>>

\* disposableResources, in push order
DisposableResources ==
    <<Res("starSprite", None), Res("galaxyGeometry", None), Res("galaxyMaterial", None),
      Res("deepGeometry", None), Res("deepMaterial", None),
      Res("sphereGeometry", None), Res("ringGeometry", None)>>
    \o SitePushes(Len(sites))
    \o <<Res("lineGeometry", None), Res("lineMaterial", None)>>

\* controls.dispose(); renderer.dispose()
DeviceList == <<Res("controls", None), Res("renderer", None)>>
Devices == {DeviceList[i] : i \in 1..Len(DeviceList)}

\* for (const resource of disposableResources) resource.dispose()
RECURSIVE DisposeAll(_, _)
DisposeAll(d, list) ==
    IF list = <<>> THEN d
    ELSE DisposeAll([d EXCEPT ![Head(list)] = @ + 1], Tail(list))

MountListeners ==
    {"start", "pointermove", "pointerdown", "click", "pointerup", "pointerleave", "resize"}

\* the runtime the mount effect stores in runtimeRef, and the hover state beside it
FreshRuntime(tw) ==
    [focusLocked |-> FALSE, pendingFocusId |-> None, cameraTween |-> None,
     targetTween |-> None, controlsEnabled |-> TRUE, hovered |-> None,
     cursor |-> "default", tweens |-> tw, emits |-> <<>>]

\* mutant: the cleanup leaves the frame request pending
TeardownCancelKeepsFrame ==
    /\ pc = "run"
    /\ tweens' = KillFocusTweens(tweens, cameraTween, targetTween)
    /\ listeners' = listeners \ MountListeners
    /\ frameScheduled' = frameScheduled
    /\ pc' = "td_release"
    /\ emitted' = <<>>
    /\ UNCHANGED appVars
    /\ lastIntersects' = <<>>
    /\ lastOp' = "teardown"
    /\ UNCHANGED <<inst, disposed, pointerVars, runtimeVars, hoverVars, objectVars,
                   historyVars, focusSite,
                   sceneVars>>

\* The cleanup of the mount effect, in its order and without any other step
\* in between. First it kills the stored camera and target tweens, removes
\* the listeners and cancels the frame request.
TeardownCancel ==
    /\ pc = "run"
    /\ tweens' = KillFocusTweens(tweens, cameraTween, targetTween)
    /\ listeners' = listeners \ MountListeners
    /\ frameScheduled' = FALSE
    /\ pc' = "td_release"
    /\ emitted' = <<>>
    /\ UNCHANGED appVars
    /\ lastIntersects' = <<>>
    /\ lastOp' = "teardown"
    /\ UNCHANGED <<inst, disposed, pointerVars, runtimeVars, hoverVars, objectVars,
                   historyVars, focusSite,
                   sceneVars>>

\* Then it disposes the controls, the renderer and every disposable resource,
\* detaches the canvas and clears runtimeRef.
TeardownRelease ==
    /\ pc = "td_release"
    /\ disposed' = DisposeAll(DisposeAll(disposed, DeviceList), DisposableResources)
    /\ cursor' = "default"
    /\ pc' = "down"
    /\ UNCHANGED <<inst, listeners, frameScheduled, currentHovered, pointerVars,
                   runtimeVars, objectVars, historyVars, focusSite, tweens, emitted, lastOp, lastIntersects,
                   appVars,
                   sceneVars>>

\* the scene after the first frame, which the mount effect runs itself: the
\* clock was started by this frame, the pointer has not been seen
FirstFrame(f) ==
    [elapsed |-> 0, disturbWeightTarget |-> 0, disturbWeight |-> 0,
     galaxyPositions |-> [elapsed |-> 0, disturbed |-> FALSE],
     galaxyFieldRotation |-> 0, deepStarsRotation |-> 0,
     constellationRotation |-> 0, nodesGroupRotation |-> 0,
     childPositionY |-> 0, ringRotation |-> 0,
     labelDistance |-> f.distance, labelScale |-> LabelScale(f.distance),
     labelOpacity |-> LabelOpacity(f.distance)]

\* The mount effect (with its first, synchronous frame), and after it the
\* focus effect when its dependencies changed in the same commit.
Mount(rerunFocus) ==
    /\ pc = "down"
    /\ inst < MaxMounts
    /\ rerunFocus => Len(requests) < MaxRequests
    /\ LET r == IF rerunFocus
                THEN FocusEffectBody(FreshRuntime(tweens), focusSite, Len(requests) + 1,
                                     inst + 1, BASE_CAMERA_POSITION, <<0, 0>>)
                ELSE FreshRuntime(tweens)
       IN  /\ focusLocked' = r.focusLocked
           /\ pendingFocusId' = r.pendingFocusId
           /\ cameraTween' = r.cameraTween
           /\ targetTween' = r.targetTween
           /\ controlsEnabled' = r.controlsEnabled
           /\ currentHovered' = r.hovered
           /\ cursor' = r.cursor
           /\ tweens' = r.tweens
           /\ emitted' = r.emits
    /\ requests' = IF rerunFocus
                   THEN Append(requests, [site |-> focusSite, inst |-> inst + 1])
                   ELSE requests
    /\ pc' = "run"
    /\ inst' = inst + 1
    /\ listeners' = MountListeners
    /\ frameScheduled' = TRUE
    /\ disposed' = [r \in ConstructedResources \cup Devices |-> 0]
    /\ pointerDown' = FALSE
    /\ dragDistanceSq' = 0
    /\ pointerDownAt' = <<0, 0>>
    /\ pointerClient' = <<0, 0>>
    /\ pointerNdc' = NdcOffCanvas
    /\ cameraPos' = BASE_CAMERA_POSITION
    /\ targetPos' = 0
    /\ UNCHANGED appVars
    /\ lastIntersects' = <<>>
    /\ lastOp' = "mount"
    /\ LET g == BuildSceneGraph(sitesProp)
       IN  /\ nodeMeshes' = g.nodeMeshes
           /\ nodeMeshById' = g.nodeMeshById
           /\ sitePoints' = g.sitePoints
           /\ curveSegments' = g.curveSegments
           /\ curveControls' = g.curveControls
    /\ \E f \in StillFrames :
           LET v == FirstFrame(f)
           IN  /\ elapsed' = v.elapsed
               /\ disturbWeightTarget' = v.disturbWeightTarget
               /\ disturbWeight' = v.disturbWeight
               /\ galaxyPositions' = v.galaxyPositions
               /\ galaxyFieldRotation' = v.galaxyFieldRotation
               /\ deepStarsRotation' = v.deepStarsRotation
               /\ constellationRotation' = v.constellationRotation
               /\ nodesGroupRotation' = v.nodesGroupRotation
               /\ childPositionY' = v.childPositionY
               /\ ringRotation' = v.ringRotation
               /\ labelDistance' = v.labelDistance
               /\ labelScale' = v.labelScale
               /\ labelOpacity' = v.labelOpacity
    /\ UNCHANGED <<completeLog, focusSite, sitesProp>>

\* ------------------------------------------------------------------ Init
\* the first commit: the mount effect, then the focus effect with the
\* initial focusSite (null)
\* the scene mounted for the sites prop `list`, after the first commit
InitFrom(list) ==
    /\ pc = "run"
    /\ inst = 1
    /\ focusSite = None
    /\ LET r == FocusEffectBody(FreshRuntime({}), None, 1, 1, BASE_CAMERA_POSITION, <<0, 0>>)
       IN  /\ focusLocked = r.focusLocked
           /\ pendingFocusId = r.pendingFocusId
           /\ cameraTween = r.cameraTween
           /\ targetTween = r.targetTween
           /\ controlsEnabled = r.controlsEnabled
           /\ currentHovered = r.hovered
           /\ cursor = r.cursor
           /\ tweens = r.tweens
           /\ emitted = r.emits
    /\ requests = <<[site |-> None, inst |-> 1]>>
    /\ completeLog = <<>>
    /\ listeners = MountListeners
    /\ frameScheduled = TRUE
    /\ disposed = [r \in ConstructedResources \cup Devices |-> 0]
    /\ pointerDown = FALSE
    /\ dragDistanceSq = 0
    /\ pointerDownAt = <<0, 0>>
    /\ pointerClient = <<0, 0>>
    /\ pointerNdc = NdcOffCanvas
    /\ cameraPos = BASE_CAMERA_POSITION
    /\ targetPos = 0
    /\ appFocusSite = None
    /\ previewSite = None
    /\ lastIntersects = <<>>
    /\ lastOp = "mount"
    /\ sitesProp = list
    /\ LET g == BuildSceneGraph(list)
       IN  /\ nodeMeshes = g.nodeMeshes
           /\ nodeMeshById = g.nodeMeshById
           /\ sitePoints = g.sitePoints
           /\ curveSegments = g.curveSegments
           /\ curveControls = g.curveControls
    /\ \E f \in StillFrames :
           LET v == FirstFrame(f)
           IN  /\ elapsed = v.elapsed
               /\ disturbWeightTarget = v.disturbWeightTarget
               /\ disturbWeight = v.disturbWeight
               /\ galaxyPositions = v.galaxyPositions
               /\ galaxyFieldRotation = v.galaxyFieldRotation
               /\ deepStarsRotation = v.deepStarsRotation
               /\ constellationRotation = v.constellationRotation
               /\ nodesGroupRotation = v.nodesGroupRotation
               /\ childPositionY = v.childPositionY
               /\ ringRotation = v.ringRotation
               /\ labelDistance = v.labelDistance
               /\ labelScale = v.labelScale
               /\ labelOpacity = v.labelOpacity

Init == InitFrom(SitesProp)

Next ==
    \/ \E p \in ClientPoints : OnPointerMove(p)
    \/ \E p \in ClientPoints : OnPointerDown(p)
    \/ OnPointerUp
    \/ OnPointerLeave
    \/ OnClick
    \/ OnControlStart
    \/ OnResize
    \/ \E s \in SiteOrNull : FocusEffect(s)
    \/ GsapTick
    \/ \E hits \in RaycastResults, f \in StillFrames : Animate(hits, f)
    \/ TeardownCancel
    \/ TeardownRelease

Spec == Init /\ [][Next]_vars

\* the same with remounts of the scene (the sites prop or a callback changed)
NextRemount ==
    \/ Next
    \/ \E rerun \in BOOLEAN : Mount(rerun)

SpecRemount == Init /\ [][NextRemount]_vars

\* The focus controller with the steps that share state with it: the
\* pointer-down, pointer-up, pointer-leave, click and resize handlers, which
\* write only the pointer-down flag, the drag distance and the off-canvas
\* sentinel, are left out. gsap's ticker runs for as long
\* as a tween is live.
NextFocus ==
    \/ \E p \in ClientPoints : OnPointerMove(p)
    \/ OnControlStart
    \/ \E s \in SiteOrNull : FocusEffect(s)
    \/ GsapTick
    \/ \E hits \in RaycastResults, f \in StillFrames : Animate(hits, f)
    \/ TeardownCancel
    \/ TeardownRelease

SpecLive == Init /\ [][NextFocus]_vars /\ WF_vars(GsapTick)

\* The focus controller across remounts of the scene.
NextFocusRemount ==
    \/ NextFocus
    \/ \E rerun \in BOOLEAN : Mount(rerun)

SpecFocusRemount == Init /\ [][NextFocusRemount]_vars

\* The same with the click handler: every step that can invoke one of the
\* three callbacks, across teardowns and remounts.
NextTeardown ==
    \/ NextFocusRemount
    \/ OnClick

SpecTeardown == Init /\ [][NextTeardown]_vars

\* The focus controller on scenes whose two sites lie anywhere on the z axis,
\* opposite each other included.
DirectionDepths == {16, 0 - 16, 0 - 20}
DirectionLists ==
    {[n \in Sites |-> [id |-> n, position |-> <<0, 0, z[n]>>]] : z \in [Sites -> DirectionDepths]}

InitDirection == \E list \in DirectionLists : InitFrom(list)

SpecDirection == InitDirection /\ [][NextFocus]_vars

\* ------------------------------------------------------------------- App
\* the site the last call of callback `cb` among `calls` was made with
LastCall(calls, cb, old) ==
    LET made == {i \in 1..Len(calls) : calls[i].cb = cb}
    IN  IF made = {} THEN old
        ELSE calls[CHOOSE i \in made : \A j \in made : j <= i].site

\* the callbacks the scene invoked run App's handlers: handleNodeSelect sets
\* focusSite, handleFocusComplete sets previewSite (handleHoverChange sets
\* the tooltip's state)
AppHandlers ==
    /\ emitted # <<>>
    /\ appFocusSite' = LastCall(emitted, "onNodeSelect", appFocusSite)
    /\ previewSite' = LastCall(emitted, "onFocusComplete", previewSite)
    /\ emitted' = <<>>
    /\ lastIntersects' = <<>>
    /\ lastOp' = "appHandlers"
    /\ UNCHANGED <<runtimeVars, hoverVars, pointerVars, objectVars, mountVars,
                   historyVars, focusSite, tweens, sceneVars>>

\* mutant: closing the preview leaves previewSite as it was
HandleClosePreviewKeepsPreview ==
    /\ previewSite # None
    /\ appFocusSite' = None
    /\ emitted' = <<>>
    /\ lastIntersects' = <<>>
    /\ lastOp' = "handleClosePreview"
    /\ UNCHANGED <<previewSite, runtimeVars, hoverVars, pointerVars, objectVars, mountVars,
                   historyVars, focusSite, tweens, sceneVars>>

\* handleClosePreview, from the close button or the backdrop of the shown
\* preview
HandleClosePreview ==
    /\ previewSite # None
    /\ previewSite' = None
    /\ appFocusSite' = None
    /\ emitted' = <<>>
    /\ lastIntersects' = <<>>
    /\ lastOp' = "handleClosePreview"
    /\ UNCHANGED <<runtimeVars, hoverVars, pointerVars, objectVars, mountVars,
                   historyVars, focusSite, tweens, sceneVars>>

\* App and the scene: the scene's callbacks run App's handlers before
\* anything else happens, and the focus effect runs, some time after the
\* commit, for App's focusSite.
NextApp ==
    \/ AppHandlers
    \/ emitted = <<>> /\ HandleClosePreview
    \/ emitted = <<>> /\ FocusEffect(appFocusSite)
    \/ \E p \in ClientPoints : emitted = <<>> /\ OnPointerMove(p)
    \/ emitted = <<>> /\ OnClick
    \/ emitted = <<>> /\ OnControlStart
    \/ emitted = <<>> /\ GsapTick
    \/ \E hits \in RaycastResults, f \in StillFrames : emitted = <<>> /\ Animate(hits, f)

SpecApp == Init /\ [][NextApp]_vars

\* The frame step on its clock, with the steps that write what it reads: the
\* pointer moving over and leaving the canvas, and the focus lock.
NextFrame ==
    \/ \E p \in FramePoints : OnPointerMove(p)
    \/ OnPointerLeave
    \/ \E s \in SiteOrNull : FocusEffect(s)
    \/ \E hits \in RaycastResults, f \in Frames : Animate(hits, f)

SpecFrame == Init /\ [][NextFrame]_vars

\* The frame step with the labels at every distance.
NextLabel == \E hits \in RaycastResults, f \in LabelFrames : Animate(hits, f)

SpecLabel == Init /\ [][NextLabel]_vars

\* The construction of the scene graph by the mount effect, from a sites
\* prop: nothing of the scene exists yet, and no handler is registered.
InitBuild ==
    /\ pc = "build"
    /\ inst = 0
    /\ focusSite = None
    /\ focusLocked = FALSE
    /\ pendingFocusId = None
    /\ cameraTween = None
    /\ targetTween = None
    /\ controlsEnabled = TRUE
    /\ currentHovered = None
    /\ cursor = "default"
    /\ tweens = {}
    /\ emitted = <<>>
    /\ requests = <<>>
    /\ completeLog = <<>>
    /\ listeners = {}
    /\ frameScheduled = FALSE
    /\ disposed = [r \in ConstructedResources \cup Devices |-> 0]
    /\ pointerDown = FALSE
    /\ dragDistanceSq = 0
    /\ pointerDownAt = <<0, 0>>
    /\ pointerClient = <<0, 0>>
    /\ pointerNdc = NdcOffCanvas
    /\ cameraPos = BASE_CAMERA_POSITION
    /\ targetPos = 0
    /\ appFocusSite = None
    /\ previewSite = None
    /\ lastIntersects = <<>>
    /\ lastOp = "render"
    /\ sitesProp \in SiteLists
    /\ nodeMeshes = <<>>
    /\ nodeMeshById = <<>>
    /\ sitePoints = <<>>
    /\ curveSegments = <<>>
    /\ curveControls = <<>>
    /\ elapsed = 0
    /\ disturbWeightTarget = 0
    /\ disturbWeight = 0
    /\ galaxyPositions = [elapsed |-> 0, disturbed |-> FALSE]
    /\ galaxyFieldRotation = 0
    /\ deepStarsRotation = 0
    /\ constellationRotation = 0
    /\ nodesGroupRotation = 0
    /\ childPositionY = 0
    /\ ringRotation = 0
    /\ labelDistance = 0
    /\ labelScale = 0
    /\ labelOpacity = 0

\* the node loop and the constellation loop of the mount effect
MountSceneGraph ==
    /\ pc = "build"
    /\ LET g == BuildSceneGraph(sitesProp)
       IN  /\ nodeMeshes' = g.nodeMeshes
           /\ nodeMeshById' = g.nodeMeshById
           /\ sitePoints' = g.sitePoints
           /\ curveSegments' = g.curveSegments
           /\ curveControls' = g.curveControls
    /\ pc' = "built"
    /\ UNCHANGED <<inst, listeners, frameScheduled, disposed, runtimeVars, hoverVars,
                   pointerVars, objectVars, historyVars, focusSite, tweens, emitted,
                   lastOp, lastIntersects, sitesProp, disturbVars, frameVars, appVars>>

NextBuild == MountSceneGraph

SpecBuild == InitBuild /\ [][NextBuild]_vars

\* ================================================================ claims
LastRequest == Len(requests)

\* the onFocusComplete calls made by the tweens of request k
CallsOf(k) == {j \in 1..Len(completeLog) : completeLog[j].req = k}

\* the onFocusComplete calls made since request k was processed
CallsSince(k) == {j \in 1..Len(completeLog) : completeLog[j].at >= k}

\* the live camera and orbit-target tweens of request k
FocusTweensOf(k) == {t \in tweens : t.field \in {"camera", "target"} /\ t.req = k}

\* request k asked for a node and request k + 1, the last one, for another
\* node, on the same mount and before the transition of k had completed
Superseded(k) ==
    /\ k + 1 = LastRequest
    /\ requests[k].site # None
    /\ requests[k + 1].site # None
    /\ requests[k + 1].site # requests[k].site
    /\ requests[k + 1].inst = requests[k].inst
    /\ ~\E j \in CallsOf(k) : completeLog[j].at = k

SelectCalls(calls) == {i \in 1..Len(calls) : calls[i].cb = "onNodeSelect"}
HoverCalls(calls) == {i \in 1..Len(calls) : calls[i].cb = "onHoverChange"}

\* C1: when focus is requested for node A and then, before A's transition has
\* completed, for another node B, and for nothing after it, every
\* onFocusComplete call since A's request is the one call for B made by B's
\* tween, and once B's transition has ended on the mounted scene that call
\* has been made: exactly one call, for B, none for A.
C1_SupersededFocus ==
    \A k \in 1..(LastRequest - 1) :
        Superseded(k) =>
            /\ \A j \in CallsSince(k) :
                   /\ completeLog[j].site = requests[k + 1].site
                   /\ completeLog[j].req = k + 1
            /\ Cardinality(CallsSince(k)) <= 1
            /\ (pc = "run" /\ inst = requests[k + 1].inst /\ FocusTweensOf(k + 1) = {})
                   => Cardinality(CallsSince(k)) = 1

\* C1 witness: A was superseded by B and the one call, for B, has been made
C1_Witness ==
    /\ LastRequest >= 2
    /\ Superseded(LastRequest - 1)
    /\ emitted = <<FocusComplete(requests[LastRequest].site)>>
    /\ Cardinality(CallsSince(LastRequest - 1)) = 1

\* C2: a click that arrives while the drag distance is greater than the
\* threshold calls no onNodeSelect, whatever is hovered or focused.
C2_DraggedClickSelectsNothing ==
    [][(lastOp' = "onClick" /\ dragDistanceSq > dragThreshold * dragThreshold)
           => SelectCalls(emitted') = {}]_vars

\* C2 witness: a click on a hovered node of an unlocked scene that selected
\* nothing: it was refused for the drag distance alone
C2_Witness ==
    /\ lastOp = "onClick"
    /\ emitted = <<>>
    /\ currentHovered # None
    /\ ~focusLocked
    /\ dragDistanceSq = 0
    /\ pointerDownAt # pointerClient

\* C3: onClick calls onNodeSelect exactly when the drag distance is within the
\* threshold, the scene is not focus-locked and a node is hovered: then once,
\* with the hovered node, leaving the drag distance 0. Otherwise it calls
\* nothing, and no other step calls onNodeSelect.
C3_ClickSelects ==
    [][/\ lastOp' = "onClick" =>
             IF /\ dragDistanceSq <= dragThreshold * dragThreshold
                /\ ~focusLocked
                /\ currentHovered # None
             THEN emitted' = <<NodeSelect(currentHovered)>> /\ dragDistanceSq' = 0
             ELSE emitted' = <<>>
       /\ SelectCalls(emitted') # {} => lastOp' = "onClick"]_vars

\* C3 witness: a click selected the hovered node, with the pointer away from
\* where it went down
C3_Witness ==
    /\ lastOp = "onClick"
    /\ emitted = <<NodeSelect(currentHovered)>>
    /\ dragDistanceSq = 0
    /\ pointerDownAt # pointerClient

\* C4: a focus request for a node that no other request and no teardown
\* follows leads to the end of its transition with onFocusComplete called for
\* it, and no request's tweens ever make more than one call. (Request 1 is
\* the null request of the first commit.)
C4_FocusCompletes ==
    /\ [](\A k \in 1..MaxRequests : Cardinality(CallsOf(k)) <= 1)
    /\ \A k \in 2..MaxRequests :
           (pc = "run" /\ LastRequest = k /\ requests[k].site # None)
               ~> \/ LastRequest > k
                  \/ pc # "run"
                  \/ /\ FocusTweensOf(k) = {}
                     /\ \E j \in CallsOf(k) : completeLog[j].site = requests[k].site

\* C4 witness: the transition of the last request has ended and its one call
\* has just been made
C4_Witness ==
    /\ pc = "run"
    /\ requests[LastRequest].site # None
    /\ FocusTweensOf(LastRequest) = {}
    /\ Cardinality(CallsOf(LastRequest)) = 1
    /\ lastOp = "gsapTick"
    /\ emitted = <<FocusComplete(requests[LastRequest].site)>>

\* the camera and the orbit target rest at the base pose
AtBasePose ==
    /\ cameraPos = BASE_CAMERA_POSITION
    /\ targetPos = 0
    /\ FocusTweensOf(LastRequest) = {}

\* C5: a null focus request that follows a completed focus on a node, and
\* that no other request follows, leads to the camera at the base pose
\* (0,0,40) and the orbit target at the origin. (Request 1 is the null
\* request of the first commit, so such a request is the third at least.)
C5_NullReturnsToBase ==
    \A k \in 3..MaxRequests :
        (/\ pc = "run"
         /\ LastRequest = k
         /\ requests[k].site = None
         /\ requests[k - 1].site # None
         /\ CallsOf(k - 1) # {})
            ~> (LastRequest > k \/ pc # "run" \/ AtBasePose)

\* C5 witness: back at the base pose after a completed focus and a null request
C5_Witness ==
    /\ pc = "run"
    /\ LastRequest >= 2
    /\ requests[LastRequest].site = None
    /\ requests[LastRequest - 1].site # None
    /\ CallsOf(LastRequest - 1) # {}
    /\ AtBasePose
    /\ lastOp = "gsapTick"

\* C6: at most one live tween writes the camera position and at most one the
\* orbit target, and they are those of the most recent focus request: no
\* earlier transition is still in flight, queued or stacked.
C6_OneTransition ==
    /\ \A f \in {"camera", "target"} : Cardinality({t \in tweens : t.field = f}) <= 1
    /\ \A t \in tweens : t.field \in {"camera", "target"} => t.req = LastRequest

\* C6 witness: a request took over from a transition that was in flight
C6_Witness ==
    /\ LastRequest >= 3
    /\ requests[LastRequest - 1].site # None
    /\ CallsOf(LastRequest - 1) = {}
    /\ Cardinality(FocusTweensOf(LastRequest)) = 2
    /\ \E t \in FocusTweensOf(LastRequest) :
           /\ t.field = "camera"
           /\ t.captured
           /\ t.from # BASE_CAMERA_POSITION

\* C7: while the scene is focus-locked no node is hovered and the last step
\* has made no onHoverChange call with a site, whatever pointer moves,
\* control starts and frames (with whatever their raycast would hit) occur.
C7_NoHoverWhileLocked ==
    focusLocked =>
        /\ currentHovered = None
        /\ \A i \in HoverCalls(emitted) : emitted[i].site = None

\* C7 witness: a frame ran on the locked scene with the pointer on the canvas
C7_Witness ==
    /\ focusLocked
    /\ lastOp = "animate"
    /\ pointerNdc # NdcOffCanvas
    /\ currentHovered = None

\* the live tweens that write objects of the current mount
LiveTweens == {t \in tweens : t.obj = inst}

\* C8 (as claimed): once the cleanup has run, no tween of the scene is in
\* flight, no listener of the mount is registered, and every constructed
\* geometry, material and texture has been disposed exactly once.
C8_TeardownReleasesAll ==
    pc = "down" =>
        /\ LiveTweens = {}
        /\ listeners = {}
        /\ \A r \in ConstructedResources : disposed[r] = 1

\* the part of C8 the cleanup does achieve: the stored camera and target
\* tweens, the listeners, and every resource exactly once
TeardownReleasesResources ==
    pc = "down" =>
        /\ \A t \in LiveTweens : t.field = "scale"
        /\ listeners = {}
        /\ ~frameScheduled
        /\ \A r \in ConstructedResources \cup Devices : disposed[r] = 1

\* C9 (as claimed): when the cleanup starts to release resources, every
\* tween has been cancelled and every listener detached.
C9_CancelBeforeRelease ==
    (pc = "td_release" \/ \E r \in ConstructedResources : disposed[r] > 0) =>
        /\ LiveTweens = {}
        /\ listeners = {}

\* a step's onHoverChange calls are those of a hover transition or of a
\* pointer move over the hovered node
HoverCallsExplained ==
    HoverCalls(emitted') # {} =>
        \/ currentHovered' # currentHovered
        \/ lastOp' = "onPointerMove" /\ currentHovered # None

\* C10 (as claimed): onHoverChange is called only on a hover transition or on
\* a pointer move while a node is hovered.
C10_HoverChangeOnlyOnHover == [][HoverCallsExplained]_vars

\* C10 (amended): onHoverChange is called only on a hover transition, on a
\* pointer move while a node is hovered, or by a null focus request, which
\* always ends with one call carrying no site; every other step (a focus
\* request for a node, a frame) calls it for a hover transition only, once.
C10_HoverChangeAmended ==
    [][IF lastOp' = "focusEffect" /\ focusSite' = None
       THEN emitted' = (IF currentHovered # None THEN <<HoverChange(None, 0, 0)>> ELSE <<>>)
                           \o <<HoverChange(None, 0, 0)>>
       ELSE /\ HoverCallsExplained
            /\ Cardinality(HoverCalls(emitted')) <= 1]_vars

\* C10 witness: a null focus request called onHoverChange with no node
\* hovered before or after it
C10_Witness ==
    /\ lastOp = "focusEffect"
    /\ focusSite = None
    /\ emitted = <<HoverChange(None, 0, 0)>>
    /\ currentHovered = None

\* the step changed the hovered node
HoverTransition == currentHovered' # currentHovered

\* C11 (as claimed): the onHoverChange call of a hover transition carries the
\* newly hovered site, or null, and the client coordinates of the most recent
\* pointer move.
C11_HoverEventCarriesPointer ==
    [][HoverTransition =>
          /\ HoverCalls(emitted') # {}
          /\ emitted'[1] = HoverChange(currentHovered', pointerClient'[1], pointerClient'[2])]_vars

\* C11 (amended): the onHoverChange call of a transition to a node carries
\* that node's site and pointerClient, the client coordinates of the most
\* recent pointer move (0, 0 before the first one); the call of a transition
\* to no node carries null with the coordinates 0, 0.
C11_HoverEventAmended ==
    [][HoverTransition =>
          /\ HoverCalls(emitted') # {}
          /\ emitted'[1] =
                 IF currentHovered' # None
                 THEN HoverChange(currentHovered', pointerClient'[1], pointerClient'[2])
                 ELSE HoverChange(None, 0, 0)]_vars

\* C11 witness: a frame gained the hover of a node with the pointer away from
\* the origin of the screen
C11_Witness ==
    /\ lastOp = "animate"
    /\ currentHovered # None
    /\ pointerClient # <<0, 0>>
    /\ emitted = <<HoverChange(currentHovered, pointerClient[1], pointerClient[2])>>

\* the nodes that node i has an edge to, and the samples pushed for an edge
OutEdges(i) ==
    {curveSegments[k].to : k \in {n \in 1..Len(curveSegments) : curveSegments[n].from = i}}
EdgeSamples(i, j) ==
    {k \in 1..Len(curveSegments) : curveSegments[k].from = i /\ curveSegments[k].to = j}

\* the samples of edge (i, j) are the two ends of CurveDivisions segments,
\* pushed one after the other from parameter 0 to parameter 1
SampledInSegments(i, j) ==
    LET samples == EdgeSamples(i, j)
        first == CHOOSE k \in samples : \A n \in samples : k <= n
    IN  /\ Cardinality(samples) = 2 * CurveDivisions
        /\ samples = first..(first + 2 * CurveDivisions - 1)
        /\ \A d \in 1..CurveDivisions :
               /\ curveSegments[first + 2 * (d - 1)].t = d - 1
               /\ curveSegments[first + 2 * (d - 1) + 1].t = d

\* C12: in the constellation built for N positions, node i (counted from 1)
\* has exactly min(2, N - i) outgoing edges, each to a node of a higher
\* index, none to itself, and each edge is sampled into 14 segments.
C12_EdgeCount ==
    pc = "built" =>
        LET N == Len(sitesProp)
        IN  /\ \A k \in 1..Len(curveSegments) : curveSegments[k].from \in 1..N
            /\ \A i \in 1..N :
                   /\ Cardinality(OutEdges(i)) = Min(2, N - i)
                   /\ \A j \in OutEdges(i) :
                          /\ j \in (i + 1)..N
                          /\ SampledInSegments(i, j)

\* C12 witness: a constellation of four nodes: two edges from each of the
\* first two nodes, one from the third, none from the last
C12_Witness ==
    /\ pc = "built"
    /\ Len(sitesProp) = 4
    /\ Cardinality(OutEdges(1)) = 2
    /\ Cardinality(OutEdges(3)) = 1
    /\ OutEdges(4) = {}
    /\ Len(curveSegments) = 5 * 2 * CurveDivisions

\* node j is nearer to node i than node k is, the lower index winning a tie
Nearer(i, j, k) ==
    LET dj == DistanceToSquared(sitesProp[i].position, sitesProp[j].position)
        dk == DistanceToSquared(sitesProp[i].position, sitesProp[k].position)
    IN  dj < dk \/ (dj = dk /\ j < k)

\* C13: the neighbours of node i are the higher-index nodes nearest to it by
\* squared distance, the lower index winning a tie: every neighbour is nearer
\* than every higher-index node that is not one, and the nearer neighbour is
\* sampled first.
C13_NearestNeighbours ==
    pc = "built" =>
        \A i \in 1..Len(sitesProp) :
            /\ \A j \in OutEdges(i) :
                   \A k \in ((i + 1)..Len(sitesProp)) \ OutEdges(i) : Nearer(i, j, k)
            /\ \A j \in OutEdges(i), k \in OutEdges(i) :
                   (j # k /\ Nearer(i, j, k)) =>
                       \A a \in EdgeSamples(i, j), b \in EdgeSamples(i, k) : a < b

\* C13 witness: a tie at the cut: two nodes as far from node 1 as each other,
\* the lower one a neighbour and the higher one not
C13_Witness ==
    /\ pc = "built"
    /\ \E j \in OutEdges(1) :
           \E k \in (2..Len(sitesProp)) \ OutEdges(1) :
               /\ j < k
               /\ DistanceToSquared(sitesProp[1].position, sitesProp[j].position)
                      = DistanceToSquared(sitesProp[1].position, sitesProp[k].position)

\* a frame ran while the disturbance weight was heading for 0
DecayFrame == lastOp' = "animate" /\ disturbWeightTarget = 0

\* C14: once the pointer has left the canvas (the target weight is 0) and
\* until a pointer move arrives, no frame increases the disturbance weight,
\* which stays at or above 0 and shrinks at least by the frame's blend factor
\* (so it approaches 0); and a frame that leaves the weight at or below 0.001
\* writes the particle's undisturbed swirl position for its clock reading.
C14_DisturbanceDecays ==
    [][/\ DecayFrame =>
             /\ disturbWeightTarget' = 0
             /\ disturbWeight' >= 0
             /\ disturbWeight' <= disturbWeight
             /\ BlendOne * disturbWeight'
                    <= disturbWeight * (BlendOne - DisturbBlend(elapsed' - elapsed))
       /\ (lastOp' = "animate" /\ disturbWeight' <= NegligibleWeight) =>
             galaxyPositions' = [elapsed |-> elapsed', disturbed |-> FALSE]]_vars

\* C14 witness: with the pointer off the canvas a frame has left a weight
\* between 0.001 and 1, the particle still disturbed
C14_Witness ==
    /\ lastOp = "animate"
    /\ pointerNdc = NdcOffCanvas
    /\ disturbWeightTarget = 0
    /\ ~focusLocked
    /\ disturbWeight > NegligibleWeight
    /\ disturbWeight < WeightOne
    /\ galaxyPositions.disturbed

\* the label is no larger and no more opaque after the step than before
LabelNotGrowing == labelScale' <= labelScale /\ labelOpacity' <= labelOpacity

\* C15: at every camera-to-label distance from 0 to a very large one the
\* label scale lies in [0.72, 2.35] and the opacity in [0.24, 0.95], and of
\* two frames the one at the greater distance gives the label no greater
\* scale and no greater opacity.
C15_LabelScaleBounded ==
    /\ [](/\ labelScale >= LabelScaleMin
          /\ labelScale <= LabelScaleMax
          /\ labelOpacity >= LabelOpacityMin
          /\ labelOpacity <= LabelOpacityMax)
    /\ [][labelDistance' >= labelDistance => LabelNotGrowing]_vars

\* C15 witness: a frame at the far distance, the label at its least scale
\* and opacity
C15_Witness ==
    /\ lastOp = "animate"
    /\ labelDistance = FarDistance
    /\ labelScale = LabelScaleMin
    /\ labelOpacity = LabelOpacityMin

\* C16: after the node loop over N sites with distinct ids there are N node
\* visuals, the i-th built for the i-th site, and the id lookup has N
\* entries, the i-th keyed by the i-th site's id and holding the i-th visual.
C16_OneVisualPerSite ==
    pc = "built" =>
        LET N == Len(sitesProp)
        IN  /\ Len(nodeMeshes) = N
            /\ Len(nodeMeshById) = N
            /\ Len(sitePoints) = N
            /\ \A i \in 1..N :
                   /\ nodeMeshes[i] = [mesh |-> i, site |-> sitesProp[i]]
                   /\ nodeMeshById[i].key = sitesProp[i].id
                   /\ nodeMeshById[i].value = nodeMeshes[i]
                   /\ MapGet(nodeMeshById, sitesProp[i].id).site.id = sitesProp[i].id
                   /\ sitePoints[i] = sitesProp[i].position

\* C16 witness: visuals built for sites whose ids are not in the order of
\* the list
C16_Witness ==
    /\ pc = "built"
    /\ Len(sitesProp) = 3
    /\ sitesProp[1].id > sitesProp[2].id
    /\ MapGet(nodeMeshById, sitesProp[1].id) = nodeMeshes[1]

\* C17: every onFocusComplete call is made by the transition of the request
\* that is the most recent one when the call is made, and for that request's
\* site: the tweens of a request that a later request, or a remount,
\* superseded never call it.
C17_CompleteOnlyForLastRequest ==
    \A j \in 1..Len(completeLog) :
        /\ completeLog[j].req = completeLog[j].at
        /\ completeLog[j].site = requests[completeLog[j].at].site

\* C17 witness: a transition was cancelled by a remount that requested the
\* same node again; the one call there is was made by the later transition
C17_Witness ==
    /\ LastRequest = 3
    /\ requests[2].site # None
    /\ requests[3].site = requests[2].site
    /\ requests[3].inst # requests[2].inst
    /\ CallsOf(2) = {}
    /\ emitted = <<FocusComplete(requests[3].site)>>
    /\ Cardinality(CallsOf(3)) = 1

\* C18: on a mounted scene that has received the most recent focus request,
\* the runtime is focus-locked exactly when that request was for a node, the
\* orbit controls are enabled exactly when it is not locked, and
\* pendingFocusId is the id that request asked for (null after a null
\* request).
C18_LockFollowsLastRequest ==
    (pc = "run" /\ requests[LastRequest].inst = inst) =>
        /\ focusLocked <=> requests[LastRequest].site # None
        /\ controlsEnabled <=> ~focusLocked
        /\ pendingFocusId = requests[LastRequest].site

\* C18 witness: a request for a node locked the scene, the null request after
\* it has unlocked it, and a tick has passed
C18_Witness ==
    /\ pc = "run"
    /\ LastRequest = 3
    /\ requests[2].site # None
    /\ requests[3].site = None
    /\ requests[3].inst = inst
    /\ ~focusLocked
    /\ controlsEnabled
    /\ pendingFocusId = None
    /\ lastOp = "gsapTick"

\* the square of the Euclidean distance of the pointer from the pointer-down
\* origin
FromOriginSq(client, origin) ==
    LET dx == client[1] - origin[1]
        dy == client[2] - origin[2]
    IN  dx * dx + dy * dy

\* C19: pointer-down sets the drag distance to 0 and the down flag, and only
\* pointer-down moves the origin; a pointer move while the pointer is down
\* makes the drag distance the greater of what it was and the Euclidean
\* distance of the pointer from the origin, so it does not decrease; a
\* pointer move while the pointer is not down, pointer-up, pointer-leave and
\* every step other than pointer-down, pointer-move and click leave it
\* unchanged. (The drag distance is held as its square.)
C19_DragAccumulation ==
    [][/\ lastOp' = "onPointerDown" => (dragDistanceSq' = 0 /\ pointerDown')
       /\ pointerDownAt' # pointerDownAt => lastOp' = "onPointerDown"
       /\ (lastOp' = "onPointerMove" /\ pointerDown) =>
              /\ dragDistanceSq' >= dragDistanceSq
              /\ dragDistanceSq' >= FromOriginSq(pointerClient', pointerDownAt)
              /\ dragDistanceSq' \in {dragDistanceSq,
                                      FromOriginSq(pointerClient', pointerDownAt)}
       /\ (lastOp' = "onPointerMove" /\ ~pointerDown) => dragDistanceSq' = dragDistanceSq
       /\ lastOp' \in {"onPointerUp", "onPointerLeave"} =>
              (dragDistanceSq' = dragDistanceSq /\ ~pointerDown')
       /\ lastOp' \notin {"onPointerDown", "onPointerMove", "onClick"} =>
              dragDistanceSq' = dragDistanceSq]_vars

\* C19 witness: with the pointer down, a move nearer to the origin than an
\* earlier one has left the drag distance at the earlier, greater distance
C19_Witness ==
    /\ lastOp = "onPointerMove"
    /\ pointerDown
    /\ pointerDownAt # <<0, 0>>
    /\ dragDistanceSq > FromOriginSq(pointerClient, pointerDownAt)
    /\ FromOriginSq(pointerClient, pointerDownAt) > 0

\* C20: a frame on the focus-locked scene leaves the constellation rotation,
\* the node group rotation, the nodes' float positions and the rings'
\* rotation as they were, and sets the rotation of the two particle fields
\* and the labels' scale and opacity for its clock reading and distance.
C20_IdleFrozenWhileLocked ==
    [][(lastOp' = "animate" /\ focusLocked) =>
          /\ constellationRotation' = constellationRotation
          /\ nodesGroupRotation' = nodesGroupRotation
          /\ childPositionY' = childPositionY
          /\ ringRotation' = ringRotation
          /\ galaxyFieldRotation' = elapsed' * GalaxyRate
          /\ deepStarsRotation' = elapsed' * DeepRate
          /\ labelScale' = LabelScale(labelDistance')
          /\ labelOpacity' = LabelOpacity(labelDistance')]_vars

\* C20 witness: a frame on the locked scene advanced the particle fields
\* past the idle motion, which rests where the last unlocked frame left it
C20_Witness ==
    /\ lastOp = "animate"
    /\ focusLocked
    /\ childPositionY > 0
    /\ elapsed > childPositionY
    /\ galaxyFieldRotation = elapsed * GalaxyRate
    /\ nodesGroupRotation = childPositionY * NodesRate
    /\ labelDistance = FOCUS_DISTANCE

\* the pointer is on the canvas: a pointer move has arrived since the mount
\* and since the last pointer-leave (pointerNdc is not the sentinel)
PointerActive == pointerNdc # NdcOffCanvas

\* C21: every frame blends the disturbance weight toward 1 when the pointer
\* is on the canvas and the scene is not focus-locked, and toward 0
\* otherwise; a frame on the locked scene does not increase the weight; and
\* the weight stays within [0, 1].
C21_DisturbanceFollowsPointer ==
    [][lastOp' = "animate" =>
          /\ disturbWeight' =
                 DisturbWeightStep(disturbWeight,
                                   IF PointerActive /\ ~focusLocked THEN WeightOne ELSE 0,
                                   DisturbBlend(elapsed' - elapsed))
          /\ focusLocked => disturbWeight' <= disturbWeight
          /\ disturbWeight' \in 0..WeightOne]_vars

\* C22: after a frame on the scene that is not focus-locked the hovered node
\* is the nearest of the nodes the ray through the pointer intersects (the
\* first of the intersections, which come nearest first), or none when the
\* ray intersects no node; a frame without a hit calls nothing but the
\* report of a lost hover, and the scene keeps running.
C22_HoverIsNearestHit ==
    [][(lastOp' = "animate" /\ ~focusLocked) =>
          /\ currentHovered' =
                 IF lastIntersects' = <<>> THEN None ELSE lastIntersects'[1]
          /\ lastIntersects' \in Raycast(pointerNdc, cameraPos, targetPos)
          /\ pc' = "run" /\ frameScheduled'
          /\ lastIntersects' = <<>> =>
                 emitted' = IF currentHovered # None
                            THEN <<HoverChange(None, 0, 0)>>
                            ELSE <<>>]_vars

\* C22 witness: a frame whose ray intersected two nodes has hovered the
\* nearer one, which was not hovered before
C22_Witness ==
    /\ lastOp = "animate"
    /\ ~focusLocked
    /\ Len(lastIntersects) = 2
    /\ currentHovered = lastIntersects[1]
    /\ emitted # <<>>

\* the camera tween of the last focus request
CameraTweenOfLast == {t \in tweens : t.field = "camera" /\ t.req = LastRequest}

\* the curve construction never displaces a control point along a zero-length
\* normal: at a midpoint on the origin the normal is (0, 1, 0), and the
\* control point is off the midpoint
ControlPointsDisplaced ==
    \A k \in 1..Len(curveControls) :
        LET c == curveControls[k]
        IN  /\ c.midpoint = <<0, 0, 0>> => c.curveNormal = UpVector
            /\ LengthSq(c.curveNormal) >= NormalEpsilon
            /\ c.lift >= ControlLiftBase
            /\ c.control # c.midpoint

\* a focus request for a node sends the camera to FOCUS_DISTANCE from the
\* node, on the camera's side of it, and on the +z side when the camera is at
\* the node
ApproachDisplaced ==
    (lastOp' = "focusEffect" /\ focusSite' # None) =>
        LET node == SitePosition(focusSite')
        IN  \E t \in CameraTweenOfLast' :
                /\ Abs(t.dest - node) = FOCUS_DISTANCE
                /\ cameraPos = node => t.dest = node + FOCUS_DISTANCE
                /\ cameraPos > node => t.dest > node
                /\ cameraPos < node => t.dest < node

\* C23 (as claimed): no zero-length vector is normalised or used for a
\* displacement: a curve midpoint on the origin gets the normal (0, 1, 0), a
\* camera at the focused node approaches along (0, 0, 1), and the control
\* point and the camera destination lie a non-zero distance off.
C23_NoZeroDirection ==
    /\ [](\A k \in 1..Len(curveControls) : curveControls[k].normalized # <<0, 0, 0>>)
    /\ []ControlPointsDisplaced
    /\ [][ApproachDisplaced]_vars

\* C23 (amended): no zero-length vector is used for a displacement, and the
\* midpoint of a curve, which is normalised before it is tested, is replaced
\* by (0, 1, 0) when it lies on the origin.
C23_NoZeroDisplacement ==
    /\ []ControlPointsDisplaced
    /\ [](\A k \in 1..Len(curveControls) :
             curveControls[k].normalized = curveControls[k].midpoint)
    /\ [][ApproachDisplaced]_vars

\* C23 witness: on a scene with a curve whose midpoint is the origin, lifted
\* along (0, 1, 0), a node was requested with the camera at the node
C23_Witness ==
    /\ lastOp = "focusEffect"
    /\ focusSite # None
    /\ cameraPos = SitePosition(focusSite)
    /\ \E t \in CameraTweenOfLast : t.dest = cameraPos + FOCUS_DISTANCE
    /\ \E k \in 1..Len(curveControls) :
           /\ curveControls[k].midpoint = <<0, 0, 0>>
           /\ curveControls[k].control = <<0, curveControls[k].lift, 0>>

C25_NoHoverOffCanvas ==
    [][/\ (~PointerActive /\ lastOp' = "animate") => currentHovered' = None
       /\ (~PointerActive /\ lastOp = "animate" /\ lastOp' = "onClick") =>
              SelectCalls(emitted') = {}]_vars

\* the onFocusComplete calls of the step
NewCompletions == SubSeq(completeLog', Len(completeLog) + 1, Len(completeLog'))

\* C26: once the cleanup of the scene has run, no frame step and no handler
\* of that scene runs and nothing is called back until a scene is mounted
\* again, and onFocusComplete is only ever called for a tween of the scene
\* that is mounted, never for one of a scene that was torn down.
C26_NothingAfterTeardown ==
    [][/\ (pc # "run" /\ lastOp' # "mount") =>
              /\ lastOp' \in {"teardown", "gsapTick"}
              /\ emitted' = <<>>
       /\ \A j \in 1..Len(NewCompletions) :
              /\ pc = "run"
              /\ requests[NewCompletions[j].req].inst = inst]_vars

\* a scene torn down in the middle of a focus transition, with a hover
\* transition that gsap went on ticking after the cleanup
C26_Witness ==
    /\ pc = "down"
    /\ lastOp = "gsapTick"
    /\ pendingFocusId # None
    /\ completeLog = <<>>

\* C27: the mounted scene is focus-locked exactly when the focusSite input is
\* non-null, also after a remount that left focusSite unchanged: then the
\* orbit controls are disabled and no node is hovered.
C27_LockAgreesWithFocusSite ==
    pc = "run" =>
        /\ focusLocked = (focusSite # None)
        /\ controlsEnabled = (focusSite = None)
        /\ (focusSite # None => currentHovered = None)

====
